---------------------------- MODULE Spec2Model ----------------------------
(***************************************************************************)
(* The MAVLink runtime emitted by pymavlink/generator/mavgen_javascript.py: *)
(* the X25 checksum, the frame codec (pack / decode), the order map built   *)
(* by generate(), and the stream reassembler (parseChar / parseBuffer) of   *)
(* the MAVLink connection object.                                           *)
(*                                                                          *)
(* Bytes are naturals 0..255, buffers are sequences of bytes.  JavaScript   *)
(* arrays are 0-based; order_map keeps its 0-based values and is indexed    *)
(* with +1 where it is applied to a TLA+ sequence.                          *)
(***************************************************************************)
EXTENDS Integers, Sequences, FiniteSets, TLC

VARIABLES
    mavlink,       \* the generated module: PROTOCOL_MARKER and mavlink.map
    mav,           \* the MAVLink connection object (fields of the constructor)
    file,          \* frames written to this.file by send, oldest first
    stream,        \* the bytes the transport will deliver, in order
    items,         \* how the stream was composed (what each part is)
    pos,           \* how many bytes of the stream have been pushed
    out,           \* every result the pushes have yielded so far, in order
    last,          \* the calls of parseBuffer so far: how many, what was thrown, whether one ended inside a candidate
    test           \* the codec under test: message, context, frame, decode result

vars == <<mavlink, mav, file, stream, items, pos, out, last, test>>

-----------------------------------------------------------------------------
(* Sequence helpers (Buffer.slice, Array.concat)                            *)

\* buf.slice(from): drop the first `from` elements
SliceFrom(s, from) == SubSeq(s, from + 1, Len(s))

\* buf.slice(from, to): elements from..to-1 (0-based), clipped to the buffer
Slice(s, from, to) == SubSeq(s, from + 1, IF to > Len(s) THEN Len(s) ELSE to)

RECURSIVE Flatten(_)
Flatten(ss) == IF ss = <<>> THEN <<>> ELSE Head(ss) \o Flatten(Tail(ss))

\* Array.prototype.indexOf / list.index: 0-based position of the first match
RECURSIVE IndexOf(_, _)
IndexOf(s, x) == IF s = <<>> THEN 0
                 ELSE IF Head(s) = x THEN 0 ELSE 1 + IndexOf(Tail(s), x)

-----------------------------------------------------------------------------
(* Checksum engine: mavlink.x25Crc                                          *)

\* the ^ operator on two 4-bit values, bit by bit
NibbleXor ==
    [a \in 0..15 |-> [b \in 0..15 |->
        LET X(w) == ((((a \div w) % 2) + ((b \div w) % 2)) % 2) * w
        IN  X(1) + X(2) + X(4) + X(8)]]

\* the ^ operator on two values below 2^16, four bits at a time
BitXor(a, b) ==
    NibbleXor[a % 16][b % 16]
    + 16 * NibbleXor[(a \div 16) % 16][(b \div 16) % 16]
    + 256 * NibbleXor[(a \div 256) % 16][(b \div 256) % 16]
    + 4096 * NibbleXor[(a \div 4096) % 16][(b \div 4096) % 16]

\* the body of the _.each callback: one byte folded into the running crc
x25Step(crc, e) ==
    LET tmp0 == BitXor(e, crc % 256)
        tmp  == BitXor(tmp0, tmp0 * 16) % 256
    IN  BitXor(BitXor(BitXor(crc \div 256, tmp * 256), tmp * 8), tmp \div 16) % 65536

\* _.each(bytes, ...): the running crc is computed before the next byte is taken
RECURSIVE x25Fold(_, _)
x25Fold(bytes, crc) ==
    IF bytes = <<>> THEN crc
    ELSE LET next == x25Step(crc, Head(bytes))
         IN  IF next >= 0 THEN x25Fold(Tail(bytes), next) ELSE next

\* a missing argument (typeof crc === 'undefined')
undefined == -1

\* var crc = crc || 0xffff: undefined and 0 are both falsy
x25Seed(crc) == IF crc = undefined \/ crc = 0 THEN 65535 ELSE crc

x25Crc(buffer, crc) == x25Fold(buffer, x25Seed(crc))

-----------------------------------------------------------------------------
(* jspack (javascript/lib/jspack/jspack.js is copied beside the generated   *)
(* module by generate(), and is not part of the generator's source): the    *)
(* struct packing rules, taken from the wire-format section of the          *)
(* specification.  A format is a sequence: the endianness mark, then one    *)
(* type character per value.                                                *)

\* bytes taken by one value of a format character
jspack_lenLut(ch) ==
    CASE ch \in {"c", "b", "B"} -> 1
      [] ch \in {"h", "H"} -> 2
      [] ch \in {"i", "I", "f"} -> 4
      [] OTHER -> 8

RECURSIVE jspack_EnInt(_, _)
jspack_EnInt(v, n) ==
    IF n = 0 THEN <<>> ELSE <<v % 256>> \o jspack_EnInt(v \div 256, n - 1)

RECURSIVE jspack_DeInt(_)
jspack_DeInt(bs) ==
    IF bs = <<>> THEN 0 ELSE Head(bs) + 256 * jspack_DeInt(Tail(bs))

Reverse(s) == [i \in 1..Len(s) |-> s[Len(s) + 1 - i]]

jspack_CalcLength(fmt) ==
    LET RECURSIVE Sum(_)
        Sum(f) == IF f = <<>> THEN 0 ELSE jspack_lenLut(Head(f)) + Sum(Tail(f))
    IN  Sum(Tail(fmt))

\* jspack.Pack(fmt, values): the values laid out in format order
jspack_Pack(fmt, values) ==
    LET le == Head(fmt) = "<"
        One(i) == LET b == jspack_EnInt(values[i], jspack_lenLut(fmt[i + 1]))
                  IN  IF le THEN b ELSE Reverse(b)
    IN  Flatten([i \in 1..Len(values) |-> One(i)])

\* jspack.Unpack(fmt, a): fails when `a` is shorter than the format; bytes
\* after the format's width are not looked at
jspack_Unpack(fmt, a) ==
    LET le == Head(fmt) = "<"
        n  == Len(fmt) - 1
        RECURSIVE Off(_)
        Off(i) == IF i = 1 THEN 0 ELSE Off(i - 1) + jspack_lenLut(fmt[i])
        One(i) == LET b == Slice(a, Off(i), Off(i) + jspack_lenLut(fmt[i + 1]))
                  IN  IF fmt[i + 1] = "c" THEN b[1]
                      ELSE jspack_DeInt(IF le THEN b ELSE Reverse(b))
    IN  IF Len(a) < jspack_CalcLength(fmt)
        THEN [ok |-> FALSE, vals |-> <<>>]
        ELSE [ok |-> TRUE, vals |-> [i \in 1..n |-> One(i)]]

-----------------------------------------------------------------------------
(* The registry: mavparse's view of a message, mavfmt, and the loop of      *)
(* generate() that builds fmtstr and order_map                              *)

\* mavparse: the byte width of a field type
type_length(t) ==
    CASE t \in {"char", "int8_t", "uint8_t"} -> 1
      [] t \in {"int16_t", "uint16_t"} -> 2
      [] t \in {"int32_t", "uint32_t", "float"} -> 4
      [] OTHER -> 8

\* mavparse: m.ordered_fields, the fields by descending width, ties in
\* declaration order
ordered_fields(fields) ==
    LET W(w) == SelectSeq(fields, LAMBDA f : type_length(f.type) = w)
    IN  W(8) \o W(4) \o W(2) \o W(1)

fieldnamesOf(fields) == [i \in 1..Len(fields) |-> fields[i].name]

\* mavfmt(field), for a field that is not an array
mavfmt(field) ==
    CASE field.type = "float" -> "f"
      [] field.type = "double" -> "d"
      [] field.type = "char" -> "c"
      [] field.type = "int8_t" -> "b"
      [] field.type = "uint8_t" -> "B"
      [] field.type = "int16_t" -> "h"
      [] field.type = "uint16_t" -> "H"
      [] field.type = "int32_t" -> "i"
      [] field.type = "uint32_t" -> "I"
      [] field.type = "int64_t" -> "q"
      [] OTHER -> "Q"

\* m.fmtstr: the endianness mark, then mavfmt of each field in wire order
fmtstrOf(little_endian, m) ==
    LET of == ordered_fields(m.fields)
    IN  <<IF little_endian THEN "<" ELSE ">">> \o [i \in 1..Len(of) |-> mavfmt(of[i])]

\* a slip in the order map: the inverse permutation (position of the i-th
\* wire field in the declaration)
order_mapInverse(m) ==
    LET names   == fieldnamesOf(m.fields)
        ordered == fieldnamesOf(ordered_fields(m.fields))
    IN  [i \in 1..Len(names) |-> IndexOf(names, ordered[i])]

\* m.order_map[i] = m.ordered_fieldnames.index(m.fieldnames[i])
order_mapOf(m) ==
    LET names   == fieldnamesOf(m.fields)
        ordered == fieldnamesOf(ordered_fields(m.fields))
    IN  [i \in 1..Len(names) |-> IndexOf(ordered, names[i])]

\* one line of mavlink.map, with the properties the message class sets
mapEntry(little_endian, m) ==
    [format             |-> fmtstrOf(little_endian, m),
     name               |-> m.name,
     fieldnames         |-> fieldnamesOf(m.fields),
     ordered_fieldnames |-> fieldnamesOf(ordered_fields(m.fields)),
     order_map          |-> order_mapOf(m),
     crc_extra          |-> m.crc_extra]

\* generate(): the registry of a dialect, keyed by message id
generate(xml) ==
    LET ids == {xml.message[i].id : i \in 1..Len(xml.message)}
        msg(id) == CHOOSE m \in {xml.message[i] : i \in 1..Len(xml.message)} : m.id = id
    IN  [PROTOCOL_MARKER |-> xml.protocol_marker,
         map |-> [id \in ids |-> mapEntry(xml.little_endian, msg(id))]]

-----------------------------------------------------------------------------
(* Frame codec: mavlink.header, mavlink.message.prototype.pack, decode      *)

\* this.protocol_marker = 254; parsePrefix and decode compare with the literal
protocol_marker == 254

\* the header length the constructor and the reassembler expect
HEADER_LEN == 6

MAVLINK_MSG_ID_BAD_DATA == -1

\* new mavlink.header(msgId, mlen, seq, srcSystem, srcComponent)
header(msgId, mlen, seq, srcSystem, srcComponent) ==
    [msgId |-> msgId, mlen |-> mlen, seq |-> seq,
     srcSystem |-> srcSystem, srcComponent |-> srcComponent]

\* mavlink.header.prototype.pack
header_pack(gen, h) ==
    jspack_Pack(<<">", "B", "B", "B", "B", "B", "B">>,
                <<gen.PROTOCOL_MARKER, h.mlen, h.seq, h.srcSystem, h.srcComponent, h.msgId>>)

\* jspack.Pack('<H', [crc])
pack_crc(crc) == jspack_Pack(<<"<", "H">>, <<crc>>)

\* mavlink.message.prototype.pack(mav, crc_extra, payload), for message id `id`
message_pack(gen, c, id, crc_extra, payload) ==
    LET h      == header(id, Len(payload), c.seq, c.srcSystem, c.srcComponent)
        msgbuf == header_pack(gen, h) \o payload
        crc    == x25Crc(SliceFrom(msgbuf, 1), undefined)
        crc2   == x25Crc(<<crc_extra>>, crc)
    IN  msgbuf \o pack_crc(crc2)

\* the payload with the fields in declaration order
messages_payloadDeclared(gen, m) ==
    LET e == gen.map[m.id]
    IN  jspack_Pack(e.format, [i \in 1..Len(e.fieldnames) |-> m.fields[e.fieldnames[i]]])

\* jspack.Pack(this.format, [this.<ordered_fieldnames>...])
messages_payload(gen, m) ==
    LET e == gen.map[m.id]
    IN  jspack_Pack(e.format,
                    [i \in 1..Len(e.ordered_fieldnames) |-> m.fields[e.ordered_fieldnames[i]]])

\* mavlink.messages.<name>.prototype.pack(mav)
messages_pack(gen, c, m) ==
    message_pack(gen, c, m.id, gen.map[m.id].crc_extra, messages_payload(gen, m))

\* args[i] = t[decoder.order_map[i]], for each index of t
decode_args(decoder, t) ==
    [i \in 1..Len(t) |->
        IF i <= Len(decoder.order_map) /\ decoder.order_map[i] + 1 <= Len(t)
        THEN t[decoder.order_map[i] + 1] ELSE undefined]

\* mavlink.message.prototype.set(args): this[fieldnames[i]] = args[i]
message_set(fieldnames, args) ==
    [n \in {fieldnames[i] : i \in 1..Len(fieldnames)} |->
        LET i == IndexOf(fieldnames, n) + 1
        IN  IF i <= Len(args) THEN args[i] ELSE undefined]

NoMessage == [id |-> MAVLINK_MSG_ID_BAD_DATA]

Throw(reason) == [thrown |-> reason, m |-> NoMessage]

\* the checksum test of decode, left out
decode_crcOkNever(decoder, msgbuf) == TRUE

\* receivedChecksum != messageChecksum, negated
decode_crcOk(decoder, msgbuf) ==
    LET receivedChecksum == jspack_Unpack(<<"<", "H">>, SliceFrom(msgbuf, Len(msgbuf) - 2)).vals[1]
        messageChecksum  == x25Crc(<<decoder.crc_extra>>,
                                   x25Crc(Slice(msgbuf, 1, Len(msgbuf) - 2), undefined))
    IN  receivedChecksum = messageChecksum

\* a decode that looks the message id up before it tests the length
decodeIdBeforeLength(gen, msgbuf) ==
    LET hdr == jspack_Unpack(<<">", "c", "B", "B", "B", "B", "B">>, Slice(msgbuf, 0, 6))
    IN
    IF ~hdr.ok THEN Throw("Unable to unpack MAVLink header")
    ELSE
    LET magic        == hdr.vals[1]
        mlen         == hdr.vals[2]
        seq          == hdr.vals[3]
        srcSystem    == hdr.vals[4]
        srcComponent == hdr.vals[5]
        msgId        == hdr.vals[6]
    IN
    IF magic # protocol_marker THEN Throw("Invalid MAVLink prefix")
    ELSE IF msgId \notin DOMAIN gen.map THEN Throw("Unknown MAVLink message ID")
    ELSE IF mlen # Len(msgbuf) - 8 THEN Throw("Invalid MAVLink message length")
    ELSE
    LET decoder == gen.map[msgId]
        crcu    == jspack_Unpack(<<"<", "H">>, SliceFrom(msgbuf, Len(msgbuf) - 2))
    IN
    IF ~crcu.ok THEN Throw("Unable to unpack MAVLink CRC")
    ELSE IF ~decode_crcOk(decoder, msgbuf) THEN Throw("invalid MAVLink CRC")
    ELSE
    LET t == jspack_Unpack(decoder.format, Slice(msgbuf, 6, Len(msgbuf)))
    IN
    IF ~t.ok THEN Throw("Unable to unpack MAVLink payload")
    ELSE
    [thrown |-> "",
     m |-> [id      |-> msgId,
            name    |-> decoder.name,
            fields  |-> message_set(decoder.fieldnames, decode_args(decoder, t.vals)),
            msgbuf  |-> msgbuf,
            payload |-> SliceFrom(msgbuf, 6),
            crc     |-> crcu.vals,
            header  |-> header(msgId, mlen, seq, srcSystem, srcComponent)]]

\* MAVLink.prototype.decode(msgbuf)
decode(gen, msgbuf) ==
    LET hdr == jspack_Unpack(<<">", "c", "B", "B", "B", "B", "B">>, Slice(msgbuf, 0, 6))
    IN
    IF ~hdr.ok THEN Throw("Unable to unpack MAVLink header")
    ELSE
    LET magic        == hdr.vals[1]
        mlen         == hdr.vals[2]
        seq          == hdr.vals[3]
        srcSystem    == hdr.vals[4]
        srcComponent == hdr.vals[5]
        msgId        == hdr.vals[6]
    IN
    IF magic # protocol_marker THEN Throw("Invalid MAVLink prefix")
    ELSE IF mlen # Len(msgbuf) - 8 THEN Throw("Invalid MAVLink message length")
    ELSE IF msgId \notin DOMAIN gen.map THEN Throw("Unknown MAVLink message ID")
    ELSE
    LET decoder == gen.map[msgId]
        crcu    == jspack_Unpack(<<"<", "H">>, SliceFrom(msgbuf, Len(msgbuf) - 2))
    IN
    IF ~crcu.ok THEN Throw("Unable to unpack MAVLink CRC")
    ELSE IF ~decode_crcOk(decoder, msgbuf) THEN Throw("invalid MAVLink CRC")
    ELSE
    LET t == jspack_Unpack(decoder.format, Slice(msgbuf, 6, Len(msgbuf)))
    IN
    IF ~t.ok THEN Throw("Unable to unpack MAVLink payload")
    ELSE
    [thrown |-> "",
     m |-> [id      |-> msgId,
            name    |-> decoder.name,
            fields  |-> message_set(decoder.fieldnames, decode_args(decoder, t.vals)),
            msgbuf  |-> msgbuf,
            payload |-> SliceFrom(msgbuf, 6),
            crc     |-> crcu.vals,
            header  |-> header(msgId, mlen, seq, srcSystem, srcComponent)]]

-----------------------------------------------------------------------------
(* Stream reassembler: the MAVLink connection object                        *)

\* MAVLink = function(logger, srcSystem, srcComponent)
MAVLink(srcSystem, srcComponent) ==
    [seq                    |-> 0,
     buf                    |-> <<>>,
     bufInError             |-> <<>>,
     srcSystem              |-> srcSystem,
     srcComponent           |-> srcComponent,
     expected_length        |-> HEADER_LEN,
     total_packets_sent     |-> 0,
     total_bytes_sent       |-> 0,
     total_packets_received |-> 0,
     total_bytes_received   |-> 0,
     total_receive_errors   |-> 0]

\* a send that lets the sequence number run past 255
sendNoWrap(gen, c, f, m) ==
    LET buf == messages_pack(gen, c, m)
    IN  [c |-> [c EXCEPT !.seq = @ + 1,
                         !.total_packets_sent = @ + 1,
                         !.total_bytes_sent = @ + Len(buf)],
         file |-> Append(f, buf)]

\* a send that keeps the packed frame in the connection's own buffer
sendIntoBuffer(gen, c, f, m) ==
    LET buf == messages_pack(gen, c, m)
    IN  [c |-> [c EXCEPT !.buf = buf,
                         !.seq = (@ + 1) % 256,
                         !.total_packets_sent = @ + 1,
                         !.total_bytes_sent = @ + Len(buf)],
         file |-> Append(f, buf)]

\* MAVLink.prototype.send(mavmsg): f is what this.file has been written so
\* far (the constructor does not set this.file; the transport attaches it)
send(gen, c, f, m) ==
    LET buf == messages_pack(gen, c, m)
    IN  [c |-> [c EXCEPT !.seq = (@ + 1) % 256,
                         !.total_packets_sent = @ + 1,
                         !.total_bytes_sent = @ + Len(buf)],
         file |-> Append(f, buf)]

\* parseChar's "var m = null"
null == [isNull |-> TRUE]

\* new mavlink.messages.bad_data(data, reason)
bad_data(data, reason) ==
    [id |-> MAVLINK_MSG_ID_BAD_DATA, data |-> data, reason |-> reason, msgbuf |-> data]

\* a pushBuffer that forgets the bytes it already holds
pushBufferReplace(c, data) ==
    IF data = <<>> THEN c
    ELSE [c EXCEPT !.buf = data,
                   !.total_bytes_received = @ + Len(data)]

\* pushBuffer(data); a call without data (undefined) is the empty sequence
pushBuffer(c, data) ==
    [c EXCEPT !.buf = @ \o data,
              !.total_bytes_received = @ + Len(data)]

\* a resync that drops the whole buffer instead of one byte
parsePrefixDropAll(c) ==
    IF Len(c.buf) >= 1 /\ c.buf[1] # protocol_marker
    THEN [c |-> [c EXCEPT !.bufInError = Slice(c.buf, 0, 1),
                          !.buf = <<>>,
                          !.expected_length = HEADER_LEN],
          thrown |-> "Bad prefix"]
    ELSE [c |-> c, thrown |-> ""]

\* parsePrefix(): strips one offending byte and throws; the thrown text is
\* kept without the byte's value, which nothing reads back
parsePrefix(c) ==
    IF Len(c.buf) >= 1 /\ c.buf[1] # protocol_marker
    THEN [c |-> [c EXCEPT !.bufInError = Slice(c.buf, 0, 1),
                          !.buf = SliceFrom(c.buf, 1),
                          !.expected_length = HEADER_LEN],
          thrown |-> "Bad prefix"]
    ELSE [c |-> c, thrown |-> ""]

\* a parseLength that forgets the two checksum bytes
parseLengthNoTrailer(c) ==
    IF Len(c.buf) >= 2 THEN [c EXCEPT !.expected_length = c.buf[2] + HEADER_LEN] ELSE c

\* parseLength(): expected_length = unpacked[1] + 8
parseLength(c) ==
    IF Len(c.buf) >= 2 THEN [c EXCEPT !.expected_length = c.buf[2] + 8] ELSE c

\* the try/catch of parsePayload around decode: a decoded message is counted,
\* a failure keeps the candidate in bufInError and is thrown again
parsePayload_try(c, mbuf, d) ==
    IF d.thrown = ""
    THEN [c |-> [c EXCEPT !.total_packets_received = @ + 1], thrown |-> "", m |-> d.m]
    ELSE [c |-> [c EXCEPT !.bufInError = mbuf], thrown |-> d.thrown, m |-> null]

\* a parsePayload that hands decode everything the buffer holds
parsePayloadWholeBuffer(gen, c) ==
    IF c.expected_length >= 8 /\ Len(c.buf) >= c.expected_length
    THEN parsePayload_try([c EXCEPT !.buf = <<>>,
                                    !.expected_length = HEADER_LEN],
                          c.buf,
                          decode(gen, c.buf))
    ELSE [c |-> c, thrown |-> "", m |-> null]

\* parsePayload(): the candidate frame is cut off before decode is tried
parsePayload(gen, c) ==
    IF c.expected_length >= 8 /\ Len(c.buf) >= c.expected_length
    THEN parsePayload_try([c EXCEPT !.buf = SliceFrom(c.buf, c.expected_length),
                                    !.expected_length = HEADER_LEN],
                          Slice(c.buf, 0, c.expected_length),
                          decode(gen, Slice(c.buf, 0, c.expected_length)))
    ELSE [c |-> c, thrown |-> "", m |-> null]

\* the catch block of parseChar, without the error count
parseChar_catchNoCount(r) ==
    IF r.thrown = "" THEN r
    ELSE [c |-> [r.c EXCEPT !.bufInError = <<>>],
          m |-> bad_data(r.c.bufInError, r.thrown),
          thrown |-> ""]

\* the catch block of parseChar: an error thrown in the try block becomes a
\* bad_data message and is not thrown again
parseChar_catch(r) ==
    IF r.thrown = "" THEN r
    ELSE [c |-> [r.c EXCEPT !.total_receive_errors = @ + 1,
                            !.bufInError = <<>>],
          m |-> bad_data(r.c.bufInError, r.thrown),
          thrown |-> ""]

\* the try block of parseChar after parsePrefix: parseLength and parsePayload
\* run only when parsePrefix has not thrown
parseChar_try(gen, p) ==
    IF p.thrown # "" THEN [c |-> p.c, m |-> null, thrown |-> p.thrown]
    ELSE parsePayload(gen, parseLength(p.c))

\* parseChar(c): one pass of push, prefix, length, payload
parseChar(gen, c, data) ==
    parseChar_catch(parseChar_try(gen, parsePrefix(pushBuffer(c, data))))

\* the while(true) loop of parseBuffer: r is what the last parseChar returned;
\* the loop ends when that is null
RECURSIVE parseBuffer_loop(_, _, _)
parseBuffer_loop(gen, r, ret) ==
    IF r.thrown # "" \/ r.m = null THEN [c |-> r.c, ret |-> ret, thrown |-> r.thrown]
    ELSE parseBuffer_loop(gen, parseChar(gen, r.c, <<>>), Append(ret, r.m))

\* a parseBuffer that returns after the first message
parseBufferFirstOnly(gen, c, s) ==
    LET r == parseChar(gen, c, s)
    IN  [c |-> r.c, ret |-> IF r.m = null THEN <<>> ELSE <<r.m>>, thrown |-> r.thrown]

\* parseBuffer(s): every message now available; a null return is <<>>
parseBuffer(gen, c, s) ==
    parseBuffer_loop(gen, parseChar(gen, c, s), <<>>)

-----------------------------------------------------------------------------
(* Inputs: the dialects handed to generate(), the messages and the sender   *)
(* contexts handed to pack                                                  *)

Field(n, t) == [name |-> n, type |-> t]

\* common.xml's HEARTBEAT: id 0, nine payload bytes, crc_extra 50
HEARTBEAT ==
    [id |-> 0, name |-> "HEARTBEAT", crc_extra |-> 50,
     fields |-> <<Field("type", "uint8_t"), Field("autopilot", "uint8_t"),
                  Field("base_mode", "uint8_t"), Field("custom_mode", "uint32_t"),
                  Field("system_status", "uint8_t"), Field("mavlink_version", "uint8_t")>>]

\* the fields of the second message, declared in every order
Pool == <<Field("a", "uint8_t"), Field("b", "uint32_t"), Field("c", "uint16_t")>>

Perms(s) ==
    {[i \in 1..Len(s) |-> s[f[i]]] :
        f \in {g \in [1..Len(s) -> 1..Len(s)] : \A i, j \in 1..Len(s) : g[i] = g[j] => i = j}}

MIXED(fields) == [id |-> 1, name |-> "MIXED", crc_extra |-> 119, fields |-> fields]

\* a message of one byte, the shortest frame
PING == [id |-> 2, name |-> "PING", crc_extra |-> 200, fields |-> <<Field("v", "uint8_t")>>]

Dialect(fields, le) ==
    [protocol_marker |-> 254, little_endian |-> le,
     message |-> <<HEARTBEAT, MIXED(fields), PING>>]

\* every declaration order little-endian, and the declared order big-endian too
Dialects == {Dialect(p, TRUE) : p \in Perms(Pool)} \cup {Dialect(Pool, FALSE)}

\* the dialect the reassembler runs with
RefDialect == Dialect(Pool, TRUE)

\* a non-zero value for a field of a format character, its bytes all different
HighValue(ch) ==
    CASE ch = "B" -> 171
      [] ch = "H" -> 4660
      [] OTHER -> 16909060

\* the assignments tried: at most one field non-zero, or every field non-zero
Assignments(e) ==
    LET names == {e.fieldnames[i] : i \in 1..Len(e.fieldnames)}
        hi(n) == HighValue(e.format[IndexOf(e.ordered_fieldnames, n) + 2])
    IN  {[n \in names |-> IF n \in S THEN hi(n) ELSE 0] :
            S \in {T \in SUBSET names : Cardinality(T) <= 1 \/ T = names}}

Messages(gen) ==
    UNION {{[id |-> id, fields |-> f] : f \in Assignments(gen.map[id])} : id \in DOMAIN gen.map}

Context(seq, srcSystem, srcComponent) ==
    [seq |-> seq, srcSystem |-> srcSystem, srcComponent |-> srcComponent]

\* sender contexts; with (0, 160, 39) the all-zero HEARTBEAT has the running
\* checksum 0 before crc_extra is folded in
Contexts == {Context(0, 1, 1), Context(0, 160, 39), Context(255, 255, 0)}

CrcBuffers == {<<>>, <<0>>, <<50>>, <<1, 2, 3>>, <<255, 255>>, <<9, 0, 1, 1, 0>>}
CrcSeeds == {undefined, 0, 1, 255, 256, 4660, 32768, 65535}

-----------------------------------------------------------------------------
(* The codec under test: pack a message, flip at most one bit of the frame, *)
(* decode it; or one call of x25Crc                                          *)

\* what is remembered of the calls of parseBuffer made so far
NoCall == [op |-> "none", calls |-> 0, partial |-> FALSE, thrown |-> ""]

IdleTest ==
    [phase |-> "idle", m |-> NoMessage, c |-> Context(0, 0, 0), msgbuf |-> <<>>,
     flipped |-> -1, dec |-> Throw("not decoded"),
     crcIn |-> <<>>, crcSeed |-> undefined, crcRet |-> 0]

Pow2(j) == CASE j = 0 -> 1 [] j = 1 -> 2 [] j = 2 -> 4 [] j = 3 -> 8
             [] j = 4 -> 16 [] j = 5 -> 32 [] j = 6 -> 64 [] OTHER -> 128

FlipByte(b, j) == IF (b \div Pow2(j)) % 2 = 1 THEN b - Pow2(j) ELSE b + Pow2(j)

\* bit k of the frame flipped: bit k % 8 of byte k \div 8 (0-based)
FlipBit(frame, k) == [frame EXCEPT ![(k \div 8) + 1] = FlipByte(@, k % 8)]

InitCodec ==
    /\ mavlink \in {generate(x) : x \in Dialects}
    /\ mav = MAVLink(0, 0)
    /\ file = <<>>
    /\ stream = <<>>
    /\ items = <<>>
    /\ pos = 0
    /\ out = <<>>
    /\ last = NoCall
    /\ test = IdleTest

Pack(m, c) ==
    /\ test.phase = "idle"
    /\ test' = [test EXCEPT !.phase = "packed", !.m = m, !.c = c,
                            !.msgbuf = messages_pack(mavlink, c, m)]
    /\ UNCHANGED <<mavlink, mav, file, stream, items, pos, out, last>>

\* corruption in transit: one bit of the header or the payload
Flip(k) ==
    /\ test.phase = "packed"
    /\ test.flipped = -1
    /\ k \in 0..(8 * (Len(test.msgbuf) - 2) - 1)
    /\ test' = [test EXCEPT !.flipped = k, !.msgbuf = FlipBit(@, k)]
    /\ UNCHANGED <<mavlink, mav, file, stream, items, pos, out, last>>

Decode ==
    /\ test.phase = "packed"
    /\ test' = [test EXCEPT !.phase = "decoded", !.dec = decode(mavlink, test.msgbuf)]
    /\ UNCHANGED <<mavlink, mav, file, stream, items, pos, out, last>>

Crc(buffer, seed) ==
    /\ test.phase = "idle"
    /\ test' = [test EXCEPT !.phase = "crc", !.crcIn = buffer, !.crcSeed = seed,
                            !.crcRet = x25Crc(buffer, seed)]
    /\ UNCHANGED <<mavlink, mav, file, stream, items, pos, out, last>>

NextCodec ==
    \/ \E m \in Messages(mavlink), c \in Contexts : Pack(m, c)
    \/ \E k \in 0..(8 * (Len(test.msgbuf) - 2) - 1) : Flip(k)
    \/ Decode
    \/ \E b \in CrcBuffers, s \in CrcSeeds : Crc(b, s)

SpecCodec == InitCodec /\ [][NextCodec]_vars

-----------------------------------------------------------------------------
(* The connection under a byte stream: the transport delivers the stream in *)
(* chunks of any size, each chunk is one call of parseBuffer                *)

RefGen == generate(RefDialect)

Item(kind, bytes) == [kind |-> kind, bytes |-> bytes]

PingMsg(v) == [id |-> 2, fields |-> [v |-> v]]

Frame(m) == messages_pack(RefGen, Context(0, 1, 1), m)

\* what a stream is made of: valid frames (one with the marker value in its
\* payload), a noise byte that is not the marker, a frame with a corrupted
\* payload byte, a frame of an unregistered id, and frames whose length byte
\* is smaller or larger than their payload
ItemSet ==
    {Item("valid", Frame(PingMsg(7))),
     Item("valid", Frame(PingMsg(254))),
     Item("noise", <<85>>),
     Item("corrupt", [Frame(PingMsg(7)) EXCEPT ![7] = 1]),
     Item("unknown", [Frame(PingMsg(7)) EXCEPT ![6] = 99]),
     Item("short_length", [Frame(PingMsg(7)) EXCEPT ![2] = 0]),
     Item("long_length", [Frame(PingMsg(7)) EXCEPT ![2] = 3])}

\* the most items in one stream
MaxItems == 2

Streams == UNION {[1..n -> ItemSet] : n \in 1..MaxItems}

StreamBytes(its) == Flatten([i \in 1..Len(its) |-> its[i].bytes])

\* new MAVLink(logger, 0, 0) on the generated module, before any byte of the
\* stream has arrived
Init ==
    /\ mavlink = RefGen
    /\ mav = MAVLink(0, 0)
    /\ file = <<>>
    /\ items \in Streams
    /\ stream = StreamBytes(items)
    /\ pos = 0
    /\ out = <<>>
    /\ last = NoCall
    /\ test = IdleTest

\* parseBuffer(s) with the next n bytes of the stream; `last` counts the calls
\* (1, or 2 for more) and notes whether a call has returned with bytes of an
\* unfinished candidate left in the buffer
Push(n) ==
    /\ pos + n <= Len(stream)
    /\ LET r == parseBuffer(mavlink, mav, SubSeq(stream, pos + 1, pos + n))
       IN  /\ mav' = r.c
           /\ out' = out \o r.ret
           /\ last' = [op |-> "parseBuffer",
                       calls |-> IF last.calls = 0 THEN 1 ELSE 2,
                       partial |-> last.partial \/ r.c.buf # <<>>,
                       thrown |-> r.thrown]
    /\ pos' = pos + n
    /\ UNCHANGED <<mavlink, file, stream, items, test>>

Next == \E n \in 0..(Len(stream) - pos) : Push(n)

Spec == Init /\ [][Next]_vars

-----------------------------------------------------------------------------
(* The same connection under streams of noise bytes followed by one valid   *)
(* frame, delivered in chunks of any size                                   *)

NoiseBytes == {85, 0}

\* the most noise bytes in front of the frame
MaxNoise == 3

NoisyStreams ==
    {n \o <<v>> : n \in UNION {[1..k -> {Item("noise", <<b>>) : b \in NoiseBytes}] : k \in 1..MaxNoise},
                  v \in {Item("valid", Frame(PingMsg(7))), Item("valid", Frame(PingMsg(254)))}}

InitResync ==
    /\ mavlink = RefGen
    /\ mav = MAVLink(0, 0)
    /\ file = <<>>
    /\ items \in NoisyStreams
    /\ stream = StreamBytes(items)
    /\ pos = 0
    /\ out = <<>>
    /\ last = NoCall
    /\ test = IdleTest

SpecResync == InitResync /\ [][Next]_vars

-----------------------------------------------------------------------------
(* The sending side alone: a connection with a sink attached, one send      *)
(* after the other; the sink is drained, so only the newest frame is held   *)

MixedMsg == [id |-> 1, fields |-> [a |-> 171, b |-> 16909060, c |-> 4660]]

\* what the application sends, over and over: frames of 9 and of 15 bytes
SendSchedules ==
    {<<PingMsg(7)>>, <<MixedMsg>>, <<PingMsg(254), MixedMsg>>,
     <<MixedMsg, PingMsg(7), PingMsg(254)>>}

\* the most sends in one run: past one full turn of the sequence number
MaxSends == 258

InitSend ==
    /\ mavlink = RefGen
    /\ mav \in {MAVLink(1, 1), MAVLink(255, 0)}
    /\ file = <<>>
    /\ stream = <<>>
    /\ items \in SendSchedules
    /\ pos = 0
    /\ out = <<>>
    /\ last = NoCall
    /\ test = IdleTest

\* mav.send(m) with the next message of the schedule; `last` counts the sends
Send(m) ==
    /\ last.calls < MaxSends
    /\ m = items[(last.calls % Len(items)) + 1]
    /\ LET r == send(mavlink, mav, <<>>, m)
       IN  /\ mav' = r.c
           /\ file' = r.file
    /\ last' = [op |-> "send", calls |-> last.calls + 1, partial |-> FALSE, thrown |-> ""]
    /\ UNCHANGED <<mavlink, stream, items, pos, out, test>>

NextSend == \E m \in {items[i] : i \in 1..Len(items)} : Send(m)

SpecSend == InitSend /\ [][NextSend]_vars

-----------------------------------------------------------------------------
(* One connection used in both directions: whole calls of parseBuffer and   *)
(* of send in any order.  Beside it run a connection that only receives the *)
(* same chunks (test.rx, its results in test.rxOut) and one that only sends *)
(* the same messages (test.tx, its frames in test.txFile).                  *)

DuplexStreams ==
    {<<Item("valid", Frame(PingMsg(7))), Item("valid", Frame(PingMsg(254)))>>,
     <<Item("noise", <<85>>), Item("valid", Frame(PingMsg(7)))>>,
     <<Item("corrupt", [Frame(PingMsg(7)) EXCEPT ![7] = 1]), Item("valid", Frame(PingMsg(7)))>>,
     <<Item("long_length", [Frame(PingMsg(7)) EXCEPT ![2] = 3]), Item("valid", Frame(PingMsg(254)))>>}

\* the most sends in one run
MaxDuplexSends == 2

InitDuplex ==
    /\ mavlink = RefGen
    /\ mav = MAVLink(1, 1)
    /\ file = <<>>
    /\ items \in DuplexStreams
    /\ stream = StreamBytes(items)
    /\ pos = 0
    /\ out = <<>>
    /\ last = NoCall
    /\ test = [rx |-> MAVLink(1, 1), rxOut |-> <<>>,
               tx |-> MAVLink(1, 1), txFile |-> <<>>,
               sentMid |-> FALSE]

\* parseBuffer(s) with the next n bytes of the stream, on the connection and
\* on the one that only receives
DuplexPush(n) ==
    /\ n >= 1
    /\ pos + n <= Len(stream)
    /\ LET s == SubSeq(stream, pos + 1, pos + n)
           r == parseBuffer(mavlink, mav, s)
           x == parseBuffer(mavlink, test.rx, s)
       IN  /\ mav' = r.c
           /\ out' = out \o r.ret
           /\ test' = [test EXCEPT !.rx = x.c, !.rxOut = @ \o x.ret]
           /\ last' = [NoCall EXCEPT !.op = "parseBuffer", !.thrown = r.thrown]
    /\ pos' = pos + n
    /\ UNCHANGED <<mavlink, file, stream, items>>

\* send(m) on the connection and on the one that only sends; sentMid notes a
\* send made while the start of a frame was waiting in the buffer
DuplexSend(m) ==
    /\ Len(file) < MaxDuplexSends
    /\ LET r == send(mavlink, mav, file, m)
           x == send(mavlink, test.tx, test.txFile, m)
       IN  /\ mav' = r.c
           /\ file' = r.file
           /\ test' = [test EXCEPT !.tx = x.c, !.txFile = x.file,
                                   !.sentMid = @ \/ mav.buf # <<>>]
    /\ last' = [NoCall EXCEPT !.op = "send"]
    /\ UNCHANGED <<mavlink, stream, items, pos, out>>

NextDuplex ==
    \/ \E n \in 1..(Len(stream) - pos) : DuplexPush(n)
    \/ \E m \in {PingMsg(7), MixedMsg} : DuplexSend(m)

SpecDuplex == InitDuplex /\ [][NextDuplex]_vars

-----------------------------------------------------------------------------
(* decode handed frames that are not what pack makes of a registered        *)
(* message: a payload of another width (a sender with another layout of the *)
(* message), and damage to the marker, the length byte, the message id, the *)
(* checksum or the frame's end, in any combination                          *)

RawPayloads ==
    {<<>>, <<7>>, <<1, 2, 3, 4>>, <<1, 2, 3, 4, 5>>, <<1, 2, 3, 4, 5, 6, 7>>,
     <<1, 2, 3, 4, 5, 6, 7, 8, 9>>}

Damages == {"marker", "length", "msgid", "crc", "cut7", "cut5"}

Damaged(f, d) ==
    CASE d = "marker" -> [f EXCEPT ![1] = 85]
      [] d = "length" -> [f EXCEPT ![2] = (@ + 1) % 256]
      [] d = "msgid"  -> [f EXCEPT ![6] = 99]
      [] d = "crc"    -> [f EXCEPT ![Len(f)] = (@ + 1) % 256]
      [] d = "cut7"   -> SubSeq(f, 1, 7)
      [] OTHER        -> SubSeq(f, 1, 5)

InitDecode ==
    /\ mavlink = RefGen
    /\ mav = MAVLink(0, 0)
    /\ file = <<>>
    /\ stream = <<>>
    /\ items = {}
    /\ pos = 0
    /\ out = <<>>
    /\ last = NoCall
    /\ test = IdleTest

\* mavlink.message.prototype.pack called with the payload as it is
Build(id, payload) ==
    /\ test.phase = "idle"
    /\ test' = [test EXCEPT !.phase = "packed", !.c = Context(0, 1, 1),
                            !.crcIn = payload,
                            !.msgbuf = message_pack(mavlink, Context(0, 1, 1), id,
                                                    mavlink.map[id].crc_extra, payload)]
    /\ UNCHANGED <<mavlink, mav, file, stream, items, pos, out, last>>

\* damage in transit; `items` collects what was done to the frame
Damage(d) ==
    /\ test.phase = "packed"
    /\ d \notin items
    /\ Len(test.msgbuf) >= 8
    /\ test' = [test EXCEPT !.msgbuf = Damaged(@, d)]
    /\ items' = items \cup {d}
    /\ UNCHANGED <<mavlink, mav, file, stream, pos, out, last>>

NextDecode ==
    \/ \E id \in DOMAIN mavlink.map, payload \in RawPayloads : Build(id, payload)
    \/ \E d \in Damages : Damage(d)
    \/ Decode

SpecDecode == InitDecode /\ [][NextDecode]_vars

-----------------------------------------------------------------------------
(* Dialects of either wire protocol: xml.protocol_marker is 254 or 85 ('U'); *)
(* a frame is packed, then decoded and handed to the reassembler of the     *)
(* same generated module                                                    *)

Markers == {254, 85}

MarkerDialect(marker) == [RefDialect EXCEPT !.protocol_marker = marker]

InitMarker ==
    /\ mavlink \in {generate(MarkerDialect(k)) : k \in Markers}
    /\ mav = MAVLink(0, 0)
    /\ file = <<>>
    /\ stream = <<>>
    /\ items = <<>>
    /\ pos = 0
    /\ out = <<>>
    /\ last = NoCall
    /\ test = IdleTest

\* the packed frame arrives whole: one parseBuffer call
Receive ==
    /\ test.phase # "idle"
    /\ pos = 0
    /\ LET r == parseBuffer(mavlink, mav, test.msgbuf)
       IN  /\ mav' = r.c
           /\ out' = r.ret
           /\ last' = [op |-> "parseBuffer", calls |-> 1,
                       partial |-> r.c.buf # <<>>, thrown |-> r.thrown]
    /\ stream' = test.msgbuf
    /\ pos' = Len(test.msgbuf)
    /\ UNCHANGED <<mavlink, file, items, test>>

NextMarker ==
    \/ \E m \in Messages(mavlink), c \in Contexts : Pack(m, c)
    \/ Decode
    \/ Receive

SpecMarker == InitMarker /\ [][NextMarker]_vars

-----------------------------------------------------------------------------
(* Properties of the codec, checked under SpecCodec                         *)

\* the checksum of the specification: crc = seed, then the per-byte step
crc16Step(crc, b) ==
    LET t0 == BitXor(b, crc % 256)
        t  == BitXor(t0, t0 * 16) % 256
    IN  BitXor(BitXor(BitXor(crc \div 256, t * 256), t * 8), t \div 16) % 65536

RECURSIVE crc16(_, _)
crc16(bytes, seed) ==
    IF bytes = <<>> THEN seed
    ELSE LET next == crc16Step(seed, Head(bytes))
         IN  IF next >= 0 THEN crc16(Tail(bytes), next) ELSE next

Packed == test.phase = "packed" /\ test.flipped = -1
DecodedIntact == test.phase = "decoded" /\ test.flipped = -1
DecodedFlipped == test.phase = "decoded" /\ test.flipped >= 0

\* the payload length of a frame, from its size
PayloadLen(frame) == Len(frame) - 8

C7_CrcIsReferenceFold ==
    /\ (test.phase = "crc" /\ test.crcSeed # undefined)
           => test.crcRet = crc16(test.crcIn, test.crcSeed)
    /\ Packed =>
           LET n == Len(test.msgbuf)
               extra == mavlink.map[test.m.id].crc_extra
           IN  SubSeq(test.msgbuf, n - 1, n)
                   = pack_crc(crc16(SubSeq(test.msgbuf, 2, n - 2) \o <<extra>>, 65535))

\* C8 (pack layout), as claimed: the frame is marker, L, sequence, source
\* system, source component, message id, the L payload bytes, then the low
\* and the high byte of the reference crc over frame bytes 1..5+L extended
\* with crc_extra; and the all-zero HEARTBEAT from system 1, component 1,
\* sequence 0 is 17 bytes beginning FE 09 00 01 01 00.
C8_PackLayout ==
    Packed =>
        LET frame   == test.msgbuf
            payload == messages_payload(mavlink, test.m)
            L       == Len(payload)
            extra   == mavlink.map[test.m.id].crc_extra
            crc     == crc16(<<extra>>, crc16(SubSeq(frame, 2, 6 + L), 65535))
        IN  /\ Len(frame) = 8 + L
            /\ L = jspack_CalcLength(mavlink.map[test.m.id].format)
            /\ SubSeq(frame, 1, 6) = <<254, L, test.c.seq, test.c.srcSystem,
                                       test.c.srcComponent, test.m.id>>
            /\ SubSeq(frame, 7, 6 + L) = payload
            /\ frame[7 + L] = crc % 256
            /\ frame[8 + L] = crc \div 256
            /\ (test.m.id = 0 /\ test.c = Context(0, 1, 1)
                  /\ \A n \in DOMAIN test.m.fields : test.m.fields[n] = 0)
                => (Len(frame) = 17 /\ SubSeq(frame, 1, 15)
                        = <<254, 9, 0, 1, 1, 0, 0, 0, 0, 0, 0, 0, 0, 0, 0>>)

\* the byte of the frame that bit k belongs to (0-based)
FlippedByte == test.flipped \div 8

\* the message id of the frame under test
FrameMsgId == test.msgbuf[6]

\* C9 (crc sensitivity), as claimed: after any single-bit flip in the header
\* or the payload, decode fails with the checksum-mismatch error.
C9_FlipGivesChecksumMismatch ==
    DecodedFlipped => test.dec.thrown = "invalid MAVLink CRC"

\* C9, amended: after any single-bit flip in the header or the payload,
\* decode fails, and the error is the first check the flip breaks: bad prefix
\* for the marker byte, length mismatch for the length byte, unknown message
\* for a message id flipped to an unregistered id, and checksum mismatch for
\* the sequence, system, component and payload bytes and for a message id
\* flipped to another registered id.
C9_FlipFails ==
    DecodedFlipped =>
        test.dec.thrown =
            CASE FlippedByte = 0 -> "Invalid MAVLink prefix"
              [] FlippedByte = 1 -> "Invalid MAVLink message length"
              [] FlippedByte = 5 /\ FrameMsgId \notin DOMAIN mavlink.map
                    -> "Unknown MAVLink message ID"
              [] OTHER -> "invalid MAVLink CRC"

\* C9 witness: a payload bit of a HEARTBEAT was flipped and decode reported
\* the checksum mismatch.
C9_Witness ==
    /\ DecodedFlipped
    /\ test.m.id = 0
    /\ FlippedByte >= 6
    /\ test.dec.thrown = "invalid MAVLink CRC"

IsPermutation(om) ==
    /\ \A i \in 1..Len(om) : om[i] \in 0..(Len(om) - 1)
    /\ \A i, j \in 1..Len(om) : om[i] = om[j] => i = j

C13_Provenance ==
    (DecodedIntact /\ test.dec.thrown = "") =>
        LET f == test.msgbuf
            m == test.dec.m
            L == Len(f) - 8
        IN  /\ m.msgbuf = f
            /\ m.header.seq = f[3]
            /\ m.header.srcSystem = f[4]
            /\ m.header.srcComponent = f[5]
            /\ m.crc = <<f[Len(f) - 1] + 256 * f[Len(f)]>>
            /\ Len(m.payload) = L
            /\ m.payload = SubSeq(f, 7, 6 + L)

-----------------------------------------------------------------------------
(* Properties of the reassembler, checked under Spec                        *)

AllValid == \A i \in 1..Len(items) : items[i].kind = "valid"

Delivered == pos = Len(stream)

IsSentinel(m) == m.id = MAVLINK_MSG_ID_BAD_DATA

Sentinels(s) == Cardinality({i \in 1..Len(s) : IsSentinel(s[i])})

\* what the call of parseBuffer that made this step returned
Returned == SubSeq(out', Len(out) + 1, Len(out'))

\* C1: when a concatenation of valid frames has been delivered, in whatever
\* chunks, the messages returned so far, in call order, are the messages one
\* parseBuffer of the whole stream returns on a fresh connection: one per
\* frame, in order, each the message decode returns for that frame alone.
C1_FragmentationInvariance ==
    (Delivered /\ AllValid) =>
        /\ out = parseBuffer(mavlink, MAVLink(0, 0), stream).ret
        /\ Len(out) = Len(items)
        /\ \A i \in 1..Len(items) :
              /\ decode(mavlink, items[i].bytes).thrown = ""
              /\ out[i] = decode(mavlink, items[i].bytes).m

\* two different valid frames delivered in several calls, one of which ended
\* inside a frame
C1_Witness ==
    /\ Delivered /\ AllValid
    /\ Len(items) = 2 /\ items[1] # items[2]
    /\ last.calls = 2 /\ last.partial
    /\ Len(out) = 2 /\ out[1].fields.v = 7 /\ out[2].fields.v = 254

\* C3: a call of parseBuffer with N >= 1 bytes, none of them the marker, on a
\* connection whose buffer is empty returns exactly N sentinels, the i-th
\* carrying the i-th byte, adds N to total_receive_errors, and leaves the
\* buffer empty and expected_length at 6.
C3_Resync ==
    [][(/\ mav.buf = <<>>
        /\ pos' > pos
        /\ \A i \in (pos + 1)..pos' : stream[i] # protocol_marker)
       => LET N == pos' - pos
          IN  /\ Len(Returned) = N
              /\ \A i \in 1..N : /\ IsSentinel(Returned[i])
                                  /\ Returned[i].data = <<stream[pos + i]>>
              /\ mav'.total_receive_errors = mav.total_receive_errors + N
              /\ mav'.buf = <<>>
              /\ mav'.expected_length = 6]_vars

\* two noise bytes delivered in one call
C3_Witness ==
    /\ Delivered /\ last.calls = 1
    /\ Len(items) = 2 /\ \A i \in 1..2 : items[i].kind = "noise"
    /\ Len(out) = 2 /\ IsSentinel(out[1]) /\ IsSentinel(out[2])
    /\ mav.total_receive_errors = 2 /\ mav.buf = <<>>

\* C4: parseBuffer never throws; after any calls total_receive_errors is the
\* number of sentinels returned so far and total_packets_received the number
\* of decoded messages returned so far; each call adds to the two counters
\* exactly the sentinels and the messages it returns, so neither decreases.
C4_ErrorPropagation ==
    /\ [](/\ last.thrown = ""
          /\ mav.total_receive_errors = Sentinels(out)
          /\ mav.total_packets_received = Len(out) - Sentinels(out))
    /\ [][/\ mav'.total_receive_errors - mav.total_receive_errors = Sentinels(Returned)
          /\ mav'.total_packets_received - mav.total_packets_received
               = Len(Returned) - Sentinels(Returned)
          /\ mav'.total_receive_errors >= mav.total_receive_errors
          /\ mav'.total_packets_received >= mav.total_packets_received]_vars

\* a decode failure, a bad prefix and a decoded message in one stream
C4_Witness ==
    /\ Delivered
    /\ \E i, j, k \in 1..Len(out) :
          /\ IsSentinel(out[i]) /\ out[i].reason = "invalid MAVLink CRC"
          /\ IsSentinel(out[j]) /\ out[j].reason = "Bad prefix"
          /\ ~IsSentinel(out[k])
    /\ mav.total_receive_errors >= 2 /\ mav.total_packets_received >= 1

\* a frame that fails decode, then a valid frame
BadThenValid(kinds) ==
    /\ Len(items) = 2
    /\ items[1].kind \in kinds
    /\ items[2].kind = "valid"

\* C5: when a frame whose length byte disagrees with its payload size is
\* followed by a valid frame and both have been delivered, the malformed
\* frame has produced one sentinel that carries the frame and reports a
\* length mismatch, and the next result is the decoded valid frame.
C5_LengthEnforcement ==
    (Delivered /\ BadThenValid({"short_length", "long_length"})) =>
        /\ Len(out) = 2
        /\ out[1] = bad_data(items[1].bytes, "Invalid MAVLink message length")
        /\ out[2] = decode(mavlink, items[2].bytes).m

\* C6: a call of parseBuffer that completes a candidate frame failing decode
\* (a bad checksum or an unregistered id) and the valid frame right behind it
\* returns one sentinel carrying exactly the candidate's bytes and then the
\* decoded valid frame; parsePayload on the candidate takes exactly its
\* expected_length bytes off the buffer and resets expected_length to 6.
C6_FailureKeepsStream ==
    [][(/\ BadThenValid({"corrupt", "unknown"})
        /\ pos < Len(items[1].bytes)
        /\ pos' = Len(stream))
       => LET c == parseLength(pushBuffer(mav, SubSeq(stream, pos + 1, pos')))
              q == parsePayload(mavlink, c)
          IN  /\ c.expected_length = Len(items[1].bytes)
              /\ q.thrown \in {"invalid MAVLink CRC", "Unknown MAVLink message ID"}
              /\ q.c.buf = items[2].bytes
              /\ q.c.bufInError = items[1].bytes
              /\ q.c.expected_length = 6
              /\ Len(Returned) = 2
              /\ Returned[1] = bad_data(items[1].bytes, q.thrown)
              /\ Returned[2] = decode(mavlink, items[2].bytes).m
              /\ ~IsSentinel(Returned[2])
              /\ mav'.buf = <<>>
              /\ mav'.expected_length = 6]_vars

\* a corrupted frame and a valid frame delivered in one call
C6_Witness ==
    /\ Delivered /\ last.calls = 1
    /\ BadThenValid({"corrupt"})
    /\ Len(out) = 2
    /\ out[1] = bad_data(items[1].bytes, "invalid MAVLink CRC")
    /\ out[2].name = "PING"
    /\ mav.total_receive_errors = 1 /\ mav.total_packets_received = 1

\* C17: whenever parseBuffer has returned, the buffer is empty or starts with
\* the marker, expected_length is 6 with fewer than 2 bytes buffered and the
\* length byte + 8 otherwise, and the buffer holds fewer than expected_length
\* bytes (so at most 262); and a call returns at most as many results as
\* there were bytes in the buffer and in its argument.
C17_Quiescence ==
    /\ [](/\ (mav.buf = <<>> \/ mav.buf[1] = protocol_marker)
          /\ mav.expected_length = (IF Len(mav.buf) < 2 THEN HEADER_LEN ELSE mav.buf[2] + 8)
          /\ Len(mav.buf) < mav.expected_length
          /\ Len(mav.buf) <= 262)
    /\ [][Len(Returned) <= Len(mav.buf) + (pos' - pos)]_vars

\* a call has returned with the start of a candidate in the buffer whose
\* length byte is known, after results were returned
C17_Witness ==
    /\ last.op = "parseBuffer"
    /\ Len(out) >= 1
    /\ Len(mav.buf) >= 2
    /\ mav.expected_length = mav.buf[2] + 8
    /\ mav.expected_length > 8

\* the raw bytes a result carries: the frame of a message, the data of a
\* sentinel
CarriedBytes(m) == IF IsSentinel(m) THEN m.data ELSE m.msgbuf

Carried == Flatten([i \in 1..Len(out) |-> CarriedBytes(out[i])])

\* C18: after any sequence of calls, total_bytes_received is the number of
\* bytes pushed, which is the number of bytes carried by the results so far
\* plus the buffer's length; the carried bytes in order followed by the
\* buffer are exactly the bytes pushed.
C18_ByteConservation ==
    /\ mav.total_bytes_received = pos
    /\ mav.total_bytes_received = Len(Carried) + Len(mav.buf)
    /\ Carried \o mav.buf = SubSeq(stream, 1, pos)

\* a sentinel and a message were returned over several calls, one of which
\* left bytes in the buffer
C18_Witness ==
    /\ Delivered
    /\ last.calls = 2 /\ last.partial
    /\ \E i \in 1..Len(out) : IsSentinel(out[i])
    /\ \E i \in 1..Len(out) : ~IsSentinel(out[i])

\* the failures of decode that a well-formed candidate cannot cause
MalformedReasons ==
    {"Unable to unpack MAVLink header", "Invalid MAVLink prefix", "Invalid MAVLink message length"}

\* a result that comes from a candidate handed to decode
FromCandidate(m) == ~IsSentinel(m) \/ m.reason # "Bad prefix"

\* C20: every candidate handed to decode starts with the marker and is as
\* long as its length byte + 8, between 8 and 263 bytes, so no result for a
\* candidate is a header-unpack, prefix or length failure; and every bad-prefix
\* sentinel carries exactly one byte, which is not the marker.
C20_CandidateWellFormed ==
    \A i \in 1..Len(out) :
        IF FromCandidate(out[i])
        THEN /\ Len(CarriedBytes(out[i])) \in 8..263
             /\ CarriedBytes(out[i])[1] = protocol_marker
             /\ Len(CarriedBytes(out[i])) = CarriedBytes(out[i])[2] + 8
             /\ IsSentinel(out[i]) => out[i].reason \notin MalformedReasons
        ELSE /\ Len(out[i].data) = 1
             /\ out[i].data[1] # protocol_marker

\* a failed candidate, a bad-prefix sentinel and a decoded message were
\* returned
C20_Witness ==
    /\ \E i \in 1..Len(out) : IsSentinel(out[i]) /\ FromCandidate(out[i])
    /\ \E i \in 1..Len(out) : ~FromCandidate(out[i])
    /\ \E i \in 1..Len(out) : ~IsSentinel(out[i])

-----------------------------------------------------------------------------
(* Properties of the sending side, checked under SpecSend                   *)

\* the frame the last send wrote
Sent == file[1]

\* C11: every send writes a frame of 8 + payload length bytes that carries the
\* sequence number the connection had, then sets seq to (seq + 1) mod 256,
\* adds 1 to total_packets_sent and the frame's length to total_bytes_sent;
\* so after k sends on a fresh connection seq is k mod 256, always in 0..255
\* and back at 0 after exactly 256 sends, and the k-th frame carries
\* (k - 1) mod 256.
C11_SendSequencing ==
    /\ [](/\ mav.seq \in 0..255
          /\ mav.seq = last.calls % 256
          /\ mav.total_packets_sent = last.calls
          /\ last.calls >= 1 => Sent[3] = (last.calls - 1) % 256)
    /\ [][LET buf == file'[1]
          IN  /\ buf[3] = mav.seq
              /\ Len(buf) = 8 + jspack_CalcLength(mavlink.map[buf[6]].format)
              /\ buf[2] = Len(buf) - 8
              /\ mav'.seq = (mav.seq + 1) % 256
              /\ mav'.total_packets_sent = mav.total_packets_sent + 1
              /\ mav'.total_bytes_sent = mav.total_bytes_sent + Len(buf)]_vars

\* the 257th send: the sequence number has wrapped, the frame carries 0
C11_Witness ==
    /\ last.op = "send" /\ last.calls = 257
    /\ Sent[3] = 0
    /\ mav.seq = 1
    /\ mav.total_packets_sent = 257
    /\ mav.total_bytes_sent > 257 * 9

-----------------------------------------------------------------------------
(* Properties of decode, checked under SpecDecode                           *)

Decoded == test.phase = "decoded"

\* the checksum a frame should end with, by the specification's crc16
FrameChecksum(f, crc_extra) ==
    crc16(<<crc_extra>>, crc16(SubSeq(f, 2, Len(f) - 2), 65535))

\* the first of decode's conditions 1 to 6 that frame f violates, "" if none
FirstViolation(gen, f) ==
    IF Len(f) < 6 THEN "Unable to unpack MAVLink header"
    ELSE IF f[1] # 254 THEN "Invalid MAVLink prefix"
    ELSE IF f[2] # Len(f) - 8 THEN "Invalid MAVLink message length"
    ELSE IF f[6] \notin DOMAIN gen.map THEN "Unknown MAVLink message ID"
    ELSE IF Len(f) < 2 THEN "Unable to unpack MAVLink CRC"
    ELSE IF f[Len(f) - 1] + 256 * f[Len(f)] # FrameChecksum(f, gen.map[f[6]].crc_extra)
         THEN "invalid MAVLink CRC"
    ELSE ""

\* C12: decode reports the earliest violated condition in the order header
\* unpack, marker, length, message id, checksum unpack, checksum equality,
\* payload unpack: a frame violating any of the first six fails with the
\* first of them whatever else is wrong with it, the payload is unpacked only
\* when all six hold, and a failure returns no message.
C12_ValidationPrecedence ==
    Decoded =>
        /\ FirstViolation(mavlink, test.msgbuf) # ""
              => test.dec.thrown = FirstViolation(mavlink, test.msgbuf)
        /\ FirstViolation(mavlink, test.msgbuf) = ""
              => test.dec.thrown \in {"", "Unable to unpack MAVLink payload"}
        /\ test.dec.thrown # "" => test.dec.m = NoMessage
        /\ test.dec.thrown = "" => test.dec.m.msgbuf = test.msgbuf

\* an unregistered id and a wrong checksum: unknown message is reported; a
\* wrong marker and a wrong length: the prefix is reported
C12_Witness ==
    /\ Decoded
    /\ \/ /\ items = {"msgid", "crc"}
          /\ test.dec.thrown = "Unknown MAVLink message ID"
       \/ /\ items = {"marker", "length"}
          /\ test.dec.thrown = "Invalid MAVLink prefix"

\* bytes a message's wire format takes
FormatWidth(gen, id) == jspack_CalcLength(gen.map[id].format)

\* C16: an undamaged frame of a registered message, with a true length byte
\* and a matching checksum, whose payload is not as wide as the message's
\* wire format, fails decode with the payload-unpack error.
C16_PayloadWidth ==
    (/\ Decoded
     /\ items = {}
     /\ Len(test.crcIn) # FormatWidth(mavlink, test.msgbuf[6]))
    => test.dec.thrown = "Unable to unpack MAVLink payload"

-----------------------------------------------------------------------------
(* Properties across dialect markers, checked under SpecMarker              *)

PrefixReasons == {"Bad prefix", "Invalid MAVLink prefix"}

\* C14: whatever marker the dialect supplies, pack writes it as frame byte 0,
\* and neither decode nor parseBuffer of the same generated module rejects a
\* packed frame for its prefix.
C14_MarkerConsistency ==
    /\ test.phase # "idle" => test.msgbuf[1] = mavlink.PROTOCOL_MARKER
    /\ test.phase = "decoded" => test.dec.thrown \notin PrefixReasons
    /\ pos > 0 => \A i \in 1..Len(out) :
                     ~(IsSentinel(out[i]) /\ out[i].reason \in PrefixReasons)

-----------------------------------------------------------------------------
(* Properties of resynchronisation, checked under SpecResync                *)

\* the number of noise bytes in front of the frame
Noise == Len(items) - 1

\* C15: with k noise bytes followed by one valid frame, however the stream is
\* cut into chunks, the results are the k sentinels of one byte each, in
\* input order, then the decoded frame, and the buffer ends empty; on the way
\* the buffer holds exactly the bytes of the frame that have arrived, so the
\* marker and what follows it are never discarded.
C15_ResyncFindsFrame ==
    /\ Len(out) <= Noise + 1
    /\ \A i \in 1..Len(out) :
          i <= Noise => /\ IsSentinel(out[i])
                        /\ out[i].data = <<stream[i]>>
                        /\ out[i].reason = "Bad prefix"
    /\ Len(out) >= (IF pos < Noise THEN pos ELSE Noise)
    /\ (pos > Noise /\ ~Delivered) => mav.buf = SubSeq(stream, Noise + 1, pos)
    /\ Delivered => /\ Len(out) = Noise + 1
                    /\ out[Noise + 1] = decode(mavlink, items[Noise + 1].bytes).m
                    /\ ~IsSentinel(out[Noise + 1])
                    /\ mav.buf = <<>>

\* two noise bytes and a frame, delivered in several calls, one ending
\* inside the frame
C15_Witness ==
    /\ Delivered /\ Noise = 2
    /\ last.calls = 2 /\ last.partial
    /\ Len(out) = 3
    /\ IsSentinel(out[1]) /\ IsSentinel(out[2])
    /\ out[3].name = "PING"
    /\ mav.buf = <<>>

-----------------------------------------------------------------------------
(* Properties of a connection used in both directions, checked under        *)
(* SpecDuplex                                                               *)

\* the fields of the connection that sending works on
SendSide(c) ==
    <<c.seq, c.srcSystem, c.srcComponent, c.total_packets_sent, c.total_bytes_sent>>

\* the fields of the connection that receiving works on
ReceiveSide(c) ==
    <<c.buf, c.expected_length, c.total_packets_received, c.total_bytes_received,
      c.total_receive_errors>>

\* C19: parseBuffer leaves the sequence number, the source ids and the two
\* sent counters unchanged, send leaves the buffer, expected_length and the
\* three receive counters unchanged; so in every interleaving of whole calls
\* the results returned and the frames written are those of the receive
\* calls alone and of the sends alone.
C19_SendReceiveIndependence ==
    /\ [](/\ out = test.rxOut
          /\ file = test.txFile
          /\ ReceiveSide(mav) = ReceiveSide(test.rx)
          /\ SendSide(mav) = SendSide(test.tx))
    /\ [][/\ pos' # pos => SendSide(mav') = SendSide(mav) /\ file' = file
          /\ file' # file => ReceiveSide(mav') = ReceiveSide(mav) /\ out' = out]_vars

\* both sends were made, one of them between two receive calls with the
\* start of a frame in the buffer, and the stream gave a message
C19_Witness ==
    /\ pos = Len(stream)
    /\ Len(file) >= 2
    /\ test.sentMid
    /\ mav.seq = Len(file)
    /\ \E i \in 1..Len(out) : ~IsSentinel(out[i])
    /\ \E i \in 1..Len(out) : IsSentinel(out[i])

=============================================================================
